---------------------------- MODULE Spec2Model ----------------------------
(***************************************************************************)
(* A model of ape/kinetics.py: the KineticsJob class, its constructor      *)
(* (temperature grid), generate_kinetics (tunneling resolution, unit       *)
(* selection, per-temperature rate and equilibrium evaluation, forward     *)
(* fit), write_output (reverse-rate derivation, reverse fits) and execute  *)
(* (error handling and the nested "HOhf" job).                             *)
(*                                                                         *)
(* Floating-point numbers are modelled exactly as n/d * 10^e (a record     *)
(* [n, d, e] in lowest terms); d = 0 encodes the IEEE results of a         *)
(* division by zero (inf, -inf, nan) that numpy produces without raising.  *)
(***************************************************************************)
EXTENDS Integers, Sequences, FiniteSets, TLC

\* ------------------------------------------------------------------ bounds
MaxLen == 2        \* longest explicit temperature list
MaxTcount == 6     \* largest requested Tcount
MaxSpecies == 4    \* largest number of reactants / of products
MaxDepth == 1      \* deepest nesting of jobs started through reaction.rmg_Reaction

\* --------------------------------------------------------- program constants
DefaultTminK == 298      \* line 34
DefaultTmaxK == 2500     \* line 35
DefaultTcount == 50      \* line 36
MinTcountExcl == 3       \* line 36: Tcount > 3

NULL == "null"           \* Python None, where the other values are strings
None == <<>>             \* Python None, where the other values are numbers or objects
Some(x) == <<x>>

\* ------------------------------------------------------------- input domains
TempVals == {300, 600}                 \* explicit temperatures, in K
ArgTmins == {None, Some(300)}
ArgTmaxs == {None, Some(1000)}
ArgTcounts == (0 - 1) .. MaxTcount
RateVals == {1, 2}                     \* TST rate coefficients (SI), positive
KeqVals == {0 - 1, 0, 1, 2}            \* equilibrium constants (SI)

RECURSIVE SeqsUpTo(_, _)
SeqsUpTo(S, k) ==
    IF k = 0 THEN {<<>>}
    ELSE LET shorter == SeqsUpTo(S, k - 1)
         IN  shorter \cup {Append(s, x) : s \in {t \in shorter : Len(t) = k - 1}, x \in S}

ExplicitTlists == SeqsUpTo(TempVals, MaxLen) \ {<<>>}

\* ------------------------------------------------------------------ numbers
Abs(x) == IF x < 0 THEN 0 - x ELSE x

RECURSIVE GCD(_, _)
GCD(a, b) == IF b = 0 THEN a ELSE GCD(b, a % b)

\* n/d * 10^e in lowest terms, d > 0; zero is [0, 1, 0]
Norm(n, d, e) ==
    IF n = 0 THEN [n |-> 0, d |-> 1, e |-> 0]
    ELSE LET g == GCD(Abs(n), d)
         IN  [n |-> n \div g, d |-> d \div g, e |-> e]

Num(x) == Norm(x, 1, 0)
One == Num(1)
Zero == Num(0)
Inf == [n |-> 1, d |-> 0, e |-> 0]
NegInf == [n |-> 0 - 1, d |-> 0, e |-> 0]
NaN == [n |-> 0, d |-> 0, e |-> 0]

Pow10(e) == [n |-> 1, d |-> 1, e |-> e]

Mul(a, b) == Norm(a.n * b.n, a.d * b.d, a.e + b.e)

\* numpy float64 true division of finite numbers: x/0 is +-inf, 0/0 is nan
Div(a, b) ==
    IF b.n = 0
    THEN IF a.n = 0 THEN NaN ELSE IF a.n > 0 THEN Inf ELSE NegInf
    ELSE IF b.n > 0 THEN Norm(a.n * b.d, a.d * b.n, a.e - b.e)
         ELSE Norm((0 - a.n) * b.d, a.d * (0 - b.n), a.e - b.e)

\* sum and difference of plain fractions (e = 0), over the least common denominator
Add(a, b) ==
    LET g == GCD(a.d, b.d)
    IN  Norm(a.n * (b.d \div g) + b.n * (a.d \div g), (a.d \div g) * b.d, 0)
Sub(a, b) == Add(a, Norm(0 - b.n, b.d, 0))

Less(a, b) == a.n * b.d < b.n * a.d

\* ----------------------------------------------------------- temperature grid
\* quantity.Temperature((values, 'K')).value_si: kelvin values as floats
Temperature(vals) == [j \in 1 .. Len(vals) |-> Num(vals[j])]

\* np.linspace(start, stop, num), num >= 2: start + j*step, last point set to stop
Linspace(start, stop, num) ==
    LET step == Div(Sub(stop, start), Num(num - 1))
    IN  [j \in 1 .. num |-> IF j = num THEN stop ELSE Add(start, Mul(Num(j - 1), step))]

RECURSIVE SeqMin(_)
SeqMin(s) ==
    IF Len(s) = 1 THEN s[1]
    ELSE LET m == SeqMin(Tail(s)) IN IF Less(m, s[1]) THEN m ELSE s[1]

RECURSIVE SeqMax(_)
SeqMax(s) ==
    IF Len(s) = 1 THEN s[1]
    ELSE LET m == SeqMax(Tail(s)) IN IF Less(s[1], m) THEN m ELSE s[1]

\* the comparison of line 36 as Tcount >= 3
EffectiveTcount_AtLeast3(tcount) == IF tcount >= MinTcountExcl THEN tcount ELSE DefaultTcount

\* line 36
EffectiveTcount(tcount) == IF tcount > MinTcountExcl THEN tcount ELSE DefaultTcount

\* lines 34-35
TminOrDefault(tmin) == IF tmin # None THEN Num(tmin[1]) ELSE Num(DefaultTminK)
TmaxOrDefault(tmax) == IF tmax # None THEN Num(tmax[1]) ELSE Num(DefaultTmaxK)

\* line 45: 1 / np.linspace(1/Tmax, 1/Tmin, Tcount)
GeneratedTlist(tmin, tmax, tcount) ==
    LET inv == Linspace(Div(One, tmax), Div(One, tmin), tcount)
    IN  [j \in 1 .. tcount |-> Div(One, inv[j])]

\* lines 39-45: the fields Tlist, Tmin, Tmax, Tcount of the constructed job
InitTlist(tmin, tmax, tlist, tcount) ==
    IF tlist # None THEN Temperature(tlist[1])
    ELSE GeneratedTlist(TminOrDefault(tmin), TmaxOrDefault(tmax), EffectiveTcount(tcount))

InitTmin(tmin, tlist) ==
    IF tlist # None THEN SeqMin(Temperature(tlist[1])) ELSE TminOrDefault(tmin)

InitTmax(tmax, tlist) ==
    IF tlist # None THEN SeqMax(Temperature(tlist[1])) ELSE TmaxOrDefault(tmax)

\* line 43 left out: the count not derived from the explicit list
InitTcount_NotDerived(tlist, tcount) == EffectiveTcount(tcount)

InitTcount(tlist, tcount) ==
    IF tlist # None THEN Len(Temperature(tlist[1])) ELSE EffectiveTcount(tcount)


\* ------------------------------------------------------------------- state
VARIABLES
    pc,                 \* position in the code
    depth,              \* number of nested jobs started by execute (lines 100-103)
    ret,                \* where the running generate_kinetics was called from
    failure,            \* the exception that left execute, or NULL
    caught,             \* exceptions caught and logged as warnings (lines 89, 96)
    genCalls,           \* number of generate_kinetics invocations so far
    argTmin, argTmax, argTlist, argTcount,          \* constructor arguments
    usedTST, Tmin, Tmax, Tcount, Tlist,             \* job fields
    k_units, K_eq_units, k_r_units,
    k_list, k0_list, kappa_list, Keq_list,
    nReactants, nProducts,                          \* len(reaction.reactants/products)
    tsTunneling,        \* reaction.transition_state.tunneling: "None" or "model"
    tunModel,           \* the tunneling object the reference "model" points to
    kinetics,           \* reaction.kinetics
    rateTab, keqTab,    \* the reaction's rate (without tunneling) and Keq, per T
    tunneling, i,       \* locals of generate_kinetics
    output_directory, plot, print_HOhf_result,      \* arguments of execute
    woI, k0_revs, k_revs, kinetics_0_rev, kinetics_rev,   \* locals of write_output
    revWritten          \* the reverse rate laws were written (lines 216-217)

ctl == <<pc, depth, ret, failure, caught, genCalls>>
ctorArgs == <<argTmin, argTmax, argTlist, argTcount>>
grid == <<Tmin, Tmax, Tcount, Tlist>>
units == <<k_units, K_eq_units, k_r_units>>
samples == <<k_list, k0_list, kappa_list, Keq_list>>
shape == <<nReactants, nProducts>>
evaluators == <<rateTab, keqTab>>
execArgs == <<output_directory, plot, print_HOhf_result>>
woLocals == <<woI, k0_revs, k_revs, kinetics_0_rev, kinetics_rev, revWritten>>

vars == <<ctl, ctorArgs, usedTST, grid, units, samples, shape, tsTunneling, tunModel,
          kinetics, evaluators, tunneling, i, execArgs, woLocals>>

\* ---------------------------------------------------------------- tunneling
NoModel == [kind |-> "None", frequency |-> None,
            E0_reac |-> None, E0_TS |-> None, E0_prod |-> None]

UserFrequency == Some(Num(1000))
UserE0 == Some(Num(10))

TunnelingModels ==
    {NoModel}
    \cup {[NoModel EXCEPT !.kind = kd, !.frequency = f] :
             kd \in {"Wigner", "Other"}, f \in {None, UserFrequency}}
    \cup {[kind |-> "Eckart", frequency |-> f, E0_reac |-> e, E0_TS |-> e, E0_prod |-> e] :
             f \in {None, UserFrequency}, e \in {None, UserE0}}

\* sum of conformer.E0.value_si over n species, species j having E0 = 1000*j J/mol
RECURSIVE SumE0(_)
SumE0(n) == IF n = 0 THEN 0 ELSE 1000 * n + SumE0(n - 1)

\* (value_si * 0.001, "kJ/mol")
KJ(x) == Some(Mul(Num(x), Norm(1, 1000, 0)))

\* (transition_state.frequency.value_si, "cm^-1")
TsFrequency == Some(Num(1500))

\* line 127: an unrecognized model without a frequency
ResolveRaises(t) ==
    /\ ~(t.kind = "Wigner" /\ t.frequency = None)
    /\ ~(t.kind = "Eckart" /\ t.frequency = None)
    /\ t.kind # "None"
    /\ t.frequency = None

\* lines 113-125: the tunneling object after the resolution step
ResolveTunneling(t, nR, nP) ==
    IF t.kind = "Wigner" /\ t.frequency = None
    THEN [t EXCEPT !.frequency = TsFrequency]
    ELSE IF t.kind = "Eckart" /\ t.frequency = None
    THEN [t EXCEPT !.frequency = TsFrequency,
                   !.E0_reac = KJ(SumE0(nR)),
                   !.E0_TS = KJ(5000),
                   !.E0_prod = KJ(SumE0(nP))]
    ELSE t

\* -------------------------------------------------------------------- units
RateUnits == [o \in 1 .. 3 |->
                 CASE o = 1 -> "s^-1" [] o = 2 -> "cm^3/(mol*s)" [] o = 3 -> "cm^6/(mol^2*s)"]

KeqUnits == [dn \in (0 - 2) .. 2 |->
                 CASE dn = 2 -> "mol^2/cm^6" [] dn = 1 -> "mol/cm^3" [] dn = 0 -> "       "
                   [] dn = 0 - 1 -> "cm^3/mol" [] dn = 0 - 2 -> "cm^6/mol^2"]

\* the lookup of the reverse unit (line 133) left out
UnitsSupported_NoProductLookup(nR, nP) ==
    /\ nR \in DOMAIN RateUnits
    /\ (nP - nR) \in DOMAIN KeqUnits

\* lines 130-133: the three dictionary lookups all find their key
UnitsSupported(nR, nP) ==
    /\ nR \in DOMAIN RateUnits
    /\ (nP - nR) \in DOMAIN KeqUnits
    /\ nP \in DOMAIN RateUnits

\* lines 136-139: Units(K_eq_units).get_conversion_factor_from_si(), or 1
KeqUnitConverter(nR, nP) == IF KeqUnits[nP - nR] # "       " THEN Pow10(0 - 6 * (nP - nR)) ELSE One

\* line 141: 1e6 ** (order - 1)
Factor(order) == Pow10(6 * (order - 1))

\* reaction.calculate_tst_rate_coefficient(T) under the current tunneling field:
\* the rate without tunneling, times the correction of the model in force
TunnelingFactor(ref, t) ==
    IF ref = "None" THEN 1 ELSE IF t.kind = "Eckart" THEN 3 ELSE 2

TstRate(base, ref, t) == Num(base * TunnelingFactor(ref, t))

\* the division left out
Kappa_NoDivision(k, k0) == k

\* line 155
Kappa(k, k0) == Div(k, k0)

\* np.zeros_like(Tlist)
Zeros(n) == [j \in 1 .. n |-> Zero]

\* Arrhenius().fit_to_data(T, k, kunits): the law is a function of the data fitted
Fitted(tdata, kdata, kunits) == [T |-> tdata, k |-> kdata, kunits |-> kunits]

CoreFailures == {"tunneling", "units", "rate", "keq", "fit", "revfit"}


TempNums == {Num(t) : t \in TempVals}

\* the kelvin values of a temperature quantity holding whole numbers
ValueK(q) == [j \in 1 .. Len(q) |-> q[j].n]

\* ------------------------------------------------------------ initial states
Unconstructed ==
    /\ pc = "new" /\ depth = 0 /\ ret = NULL /\ failure = NULL /\ caught = {}
    /\ genCalls = 0
    /\ usedTST = FALSE
    /\ Tmin = None /\ Tmax = None /\ Tcount = 0 /\ Tlist = <<>>
    /\ k_units = NULL /\ K_eq_units = NULL /\ k_r_units = NULL
    /\ k_list = <<>> /\ k0_list = <<>> /\ kappa_list = <<>> /\ Keq_list = <<>>
    /\ kinetics = None
    /\ tunneling = NULL /\ i = 0
    /\ woI = 0 /\ k0_revs = <<>> /\ k_revs = <<>>
    /\ kinetics_0_rev = None /\ kinetics_rev = None /\ revWritten = FALSE

Range(f) == {f[x] : x \in DOMAIN f}

\* the evaluators of a reaction sampled at the temperatures of tl; the values at
\* temperatures that are never sampled are immaterial and fixed
Evaluators(tl, rates, keqs) ==
    /\ rateTab \in [TempNums -> rates]
    /\ keqTab \in [TempNums -> keqs]
    /\ \A t \in TempNums \ Range(Temperature(tl)) : rateTab[t] = 1 /\ keqTab[t] = 1

WignerUnresolved == [NoModel EXCEPT !.kind = "Wigner"]
EckartUnresolved == [NoModel EXCEPT !.kind = "Eckart"]

\* the reaction a job is constructed for: reactant and product counts, tunneling model
Reaction(nRs, nPs, models) ==
    /\ nReactants \in nRs
    /\ nProducts \in nPs
    /\ tunModel \in models
    /\ tsTunneling = IF tunModel.kind = "None" THEN "None" ELSE "model"

\* the arguments execute is going to be called with
Call(ods, pls, prs) ==
    /\ output_directory \in ods
    /\ plot \in pls
    /\ print_HOhf_result \in prs
    /\ output_directory = NULL => plot      \* plot is read only with an output directory

\* A job about to be constructed on an explicit temperature list.  The inputs cover
\* every reaction shape and tunneling model, every temperature list with every
\* evaluator, and every call of execute, each over a base of the other inputs.
Init ==
    /\ Unconstructed
    /\ argTmin = None /\ argTmax = None /\ argTcount = 0
    /\ \E tl \in ExplicitTlists :
          /\ argTlist = Some(tl)
          /\ \/ /\ Len(tl) = 1
                /\ Reaction(0 .. MaxSpecies, 0 .. MaxSpecies, TunnelingModels)
                /\ Evaluators(tl, RateVals, KeqVals)
                /\ Call({"out"}, {TRUE}, {FALSE})
             \/ /\ Reaction({1, 2}, {1, 2}, {NoModel, WignerUnresolved, EckartUnresolved})
                /\ Evaluators(tl, RateVals, KeqVals)
                /\ Call({"out"}, {TRUE}, {FALSE})
             \/ /\ Reaction({1}, {1}, {NoModel, WignerUnresolved})
                /\ Evaluators(tl, RateVals, {1})
                /\ Call({NULL, "out"}, BOOLEAN, BOOLEAN)

\* a job about to be constructed, for any constructor arguments
InitGrid ==
    /\ Unconstructed
    /\ argTmin \in ArgTmins /\ argTmax \in ArgTmaxs /\ argTcount \in ArgTcounts
    /\ argTlist \in {None} \cup {Some(l) : l \in ExplicitTlists}
    /\ Reaction({1}, {1}, {NoModel})
    /\ Evaluators(<<>>, {1}, {1})
    /\ Call({NULL}, {TRUE}, {TRUE})

\* ------------------------------------------------------------------ __init__
Construct ==
    /\ pc = "new"
    /\ usedTST' = FALSE
    /\ Tmin' = InitTmin(argTmin, argTlist)
    /\ Tmax' = InitTmax(argTmax, argTlist)
    /\ Tcount' = InitTcount(argTlist, argTcount)
    /\ Tlist' = InitTlist(argTmin, argTmax, argTlist, argTcount)
    /\ k_units' = NULL
    /\ pc' = "constructed"
    /\ UNCHANGED <<depth, ret, failure, caught, genCalls, ctorArgs, K_eq_units, k_r_units,
                   samples, shape, tsTunneling, tunModel, kinetics, evaluators, tunneling, i,
                   execArgs, woLocals>>

\* ------------------------------------------------------------------- execute
\* lines 78-85: the call, up to the call of generate_kinetics
Execute ==
    /\ pc = "constructed"
    /\ pc' = "gk_resolve" /\ ret' = "execute"
    /\ UNCHANGED <<depth, failure, caught, genCalls, ctorArgs, usedTST, grid, units, samples,
                   shape, tsTunneling, tunModel, kinetics, evaluators, tunneling, i, execArgs,
                   woLocals>>

\* an exception outside the try blocks of execute leaves every frame
Raise(kind) == pc' = "raised" /\ failure' = kind

\* lines 86-88: where execute goes on after generate_kinetics has returned
AfterGenerate == IF output_directory # NULL THEN "wo_forward" ELSE "ex_hohf"

\* lines 89-93: where execute goes on after write_output has returned or raised
AfterWrite == IF plot THEN "ex_draw" ELSE "ex_hohf"

\* --------------------------------------------------------- generate_kinetics
\* lines 105-128: tunneling resolution
GK_Resolve ==
    /\ pc = "gk_resolve"
    /\ genCalls' = genCalls + 1
    /\ usedTST' = TRUE
    /\ tunneling' = tsTunneling
    /\ IF tsTunneling = "model" /\ ResolveRaises(tunModel)
       THEN Raise("tunneling") /\ UNCHANGED tunModel
       ELSE /\ tunModel' = IF tsTunneling = "model"
                           THEN ResolveTunneling(tunModel, nReactants, nProducts)
                           ELSE tunModel
            /\ pc' = "gk_units" /\ UNCHANGED failure
    /\ UNCHANGED <<depth, ret, caught, ctorArgs, grid, units, samples, shape, tsTunneling,
                   kinetics, evaluators, i, execArgs, woLocals>>

\* lines 129-146: unit selection and the sample arrays
GK_Units ==
    /\ pc = "gk_units"
    /\ LET okK == nReactants \in DOMAIN RateUnits
           okKeq == okK /\ (nProducts - nReactants) \in DOMAIN KeqUnits
           okR == okKeq /\ nProducts \in DOMAIN RateUnits
       IN  /\ k_units' = IF okK THEN RateUnits[nReactants] ELSE k_units
           /\ K_eq_units' = IF okKeq THEN KeqUnits[nProducts - nReactants] ELSE K_eq_units
           /\ k_r_units' = IF okR THEN RateUnits[nProducts] ELSE k_r_units
    /\ IF UnitsSupported(nReactants, nProducts)
       THEN /\ k_list' = Zeros(Len(Tlist)) /\ k0_list' = Zeros(Len(Tlist))
            /\ kappa_list' = Zeros(Len(Tlist)) /\ Keq_list' = Zeros(Len(Tlist))
            /\ i' = 1
            /\ pc' = "gk_disable" /\ UNCHANGED failure
       ELSE Raise("units") /\ UNCHANGED <<samples, i>>
    /\ UNCHANGED <<depth, ret, caught, genCalls, ctorArgs, usedTST, grid, shape, tsTunneling,
                   tunModel, kinetics, evaluators, tunneling, execArgs, woLocals>>

\* lines 148-149: tunneling switched off for the evaluation of k0
GK_Disable ==
    /\ pc = "gk_disable"
    /\ tunneling' = tsTunneling
    /\ tsTunneling' = "None"
    /\ pc' = "gk_k0"
    /\ UNCHANGED <<depth, ret, failure, caught, genCalls, ctorArgs, usedTST, grid, units,
                   samples, shape, tunModel, kinetics, evaluators, i, execArgs, woLocals>>

\* lines 150-152: k0, then the tunneling field is put back
GK_EvalK0 ==
    /\ pc = "gk_k0"
    /\ \/ /\ Raise("rate")
          /\ UNCHANGED <<k0_list, tsTunneling>>
       \/ /\ k0_list' = [k0_list EXCEPT
                            ![i] = Mul(TstRate(rateTab[Tlist[i]], tsTunneling, tunModel),
                                       Factor(nReactants))]
          /\ tsTunneling' = tunneling
          /\ pc' = "gk_k" /\ UNCHANGED failure
    /\ UNCHANGED <<depth, ret, caught, genCalls, ctorArgs, usedTST, grid, units,
                   k_list, kappa_list, Keq_list, shape, tunModel, kinetics, evaluators,
                   tunneling, i, execArgs, woLocals>>

\* lines 153-156: k and kappa
GK_EvalK ==
    /\ pc = "gk_k"
    /\ \/ /\ Raise("rate")
          /\ UNCHANGED <<k_list, kappa_list, tunneling>>
       \/ LET k == Mul(TstRate(rateTab[Tlist[i]], tsTunneling, tunModel),
                       Factor(nReactants))
          IN  /\ k_list' = [k_list EXCEPT ![i] = k]
              /\ kappa_list' = [kappa_list EXCEPT ![i] = Kappa(k, k0_list[i])]
              /\ tunneling' = tsTunneling
              /\ pc' = "gk_keq" /\ UNCHANGED failure
    /\ UNCHANGED <<depth, ret, caught, genCalls, ctorArgs, usedTST, grid, units,
                   k0_list, Keq_list, shape, tsTunneling, tunModel, kinetics, evaluators,
                   i, execArgs, woLocals>>

\* line 157, and the loop's step
GK_EvalKeq ==
    /\ pc = "gk_keq"
    /\ \/ /\ Raise("keq")
          /\ UNCHANGED <<Keq_list, i>>
       \/ /\ Keq_list' = [Keq_list EXCEPT
                             ![i] = Mul(KeqUnitConverter(nReactants, nProducts),
                                        Num(keqTab[Tlist[i]]))]
          /\ IF i < Len(Tlist)
             THEN i' = i + 1 /\ pc' = "gk_disable"
             ELSE i' = i /\ pc' = "gk_fit"
          /\ UNCHANGED failure
    /\ UNCHANGED <<depth, ret, caught, genCalls, ctorArgs, usedTST, grid, units,
                   k_list, k0_list, kappa_list, shape, tsTunneling, tunModel, kinetics,
                   evaluators, tunneling, execArgs, woLocals>>

\* lines 159-160: the forward fit, and the return to the caller
GK_Fit ==
    /\ pc = "gk_fit"
    /\ \/ /\ Raise("fit")
          /\ UNCHANGED kinetics
       \/ /\ kinetics' = Some(Fitted(Tlist, k_list, k_units))
          /\ pc' = IF ret = "execute" THEN AfterGenerate ELSE "hohf_execute"
          /\ UNCHANGED failure
    /\ UNCHANGED <<depth, ret, caught, genCalls, ctorArgs, usedTST, grid, units, samples,
                   shape, tsTunneling, tunModel, evaluators, tunneling, i, execArgs, woLocals>>


\* -------------------------------------------------------------- write_output
\* lines 198-200: the position of k_list, k0_list and Keq_list read for row n of the
\* reverse table; the loop variable is n, the subscript is the i the first loop left
RevIndex(n, iLeft) == iLeft

\* lines 201-202
RevRate(k, K_eq) == Div(k, K_eq)

\* an exception inside write_output is caught at line 89 and logged as a warning
CatchWrite(kind) == caught' = caught \cup {kind} /\ pc' = AfterWrite

\* the locals of write_output once it is left
WriteLeft ==
    /\ woI' = 0 /\ k0_revs' = <<>> /\ k_revs' = <<>>
    /\ kinetics_0_rev' = None /\ kinetics_rev' = None

\* lines 167-191: the file is opened and the forward table written
WO_Forward ==
    /\ pc = "wo_forward"
    /\ \/ /\ CatchWrite("io")
          /\ UNCHANGED <<woI, k0_revs, k_revs>>
       \/ /\ k0_revs' = <<>> /\ k_revs' = <<>>
          /\ woI' = IF usedTST THEN Len(Tlist) ELSE woI
          /\ pc' = IF usedTST THEN "wo_reverse" ELSE "wo_tail"
          /\ UNCHANGED caught
    /\ UNCHANGED <<depth, ret, failure, genCalls, ctorArgs, usedTST, grid, units, samples,
                   shape, tsTunneling, tunModel, kinetics, evaluators, tunneling, i, execArgs,
                   kinetics_0_rev, kinetics_rev, revWritten>>

\* lines 193-209: the reverse samples, one row per temperature
WO_Reverse ==
    /\ pc = "wo_reverse"
    /\ k0_revs' = [n \in 1 .. Len(Tlist) |->
                      RevRate(k0_list[RevIndex(n, woI)], Keq_list[RevIndex(n, woI)])]
    /\ k_revs' = [n \in 1 .. Len(Tlist) |->
                     RevRate(k_list[RevIndex(n, woI)], Keq_list[RevIndex(n, woI)])]
    /\ pc' = "wo_fit0"
    /\ UNCHANGED <<depth, ret, failure, caught, genCalls, ctorArgs, usedTST, grid, units,
                   samples, shape, tsTunneling, tunModel, kinetics, evaluators, tunneling, i,
                   execArgs, woI, kinetics_0_rev, kinetics_rev, revWritten>>

\* lines 211-212: the reverse fit without tunneling
WO_Fit0 ==
    /\ pc = "wo_fit0"
    /\ \/ /\ CatchWrite("revfit")
          /\ WriteLeft
       \/ /\ kinetics_0_rev' = Some(Fitted(Tlist, k0_revs, k_r_units))
          /\ pc' = "wo_fit1"
          /\ UNCHANGED <<caught, woI, k0_revs, k_revs, kinetics_rev>>
    /\ UNCHANGED <<depth, ret, failure, genCalls, ctorArgs, usedTST, grid, units, samples,
                   shape, tsTunneling, tunModel, kinetics, evaluators, tunneling, i, execArgs,
                   revWritten>>

\* lines 213-214: the reverse fit with tunneling
WO_Fit1 ==
    /\ pc = "wo_fit1"
    /\ \/ /\ CatchWrite("revfit")
          /\ WriteLeft
       \/ /\ kinetics_rev' = Some(Fitted(Tlist, k_revs, k_r_units))
          /\ pc' = "wo_tail"
          /\ UNCHANGED <<caught, woI, k0_revs, k_revs, kinetics_0_rev>>
    /\ UNCHANGED <<depth, ret, failure, genCalls, ctorArgs, usedTST, grid, units, samples,
                   shape, tsTunneling, tunModel, kinetics, evaluators, tunneling, i, execArgs,
                   revWritten>>

\* lines 216-229: the rate laws are written and the file closed
WO_Tail ==
    /\ pc = "wo_tail"
    /\ \/ /\ CatchWrite("io")
          /\ UNCHANGED revWritten
       \/ /\ revWritten' = usedTST
          /\ pc' = AfterWrite
          /\ UNCHANGED caught
    /\ WriteLeft
    /\ UNCHANGED <<depth, ret, failure, genCalls, ctorArgs, usedTST, grid, units, samples,
                   shape, tsTunneling, tunModel, kinetics, evaluators, tunneling, i, execArgs>>

\* lines 93-97 and 231-251: the drawing, whose failure is logged as a warning
Draw ==
    /\ pc = "ex_draw"
    /\ \/ caught' = caught \cup {"draw"}
       \/ UNCHANGED caught
    /\ pc' = "ex_hohf"
    /\ UNCHANGED <<depth, ret, failure, genCalls, ctorArgs, usedTST, grid, units, samples,
                   shape, tsTunneling, tunModel, kinetics, evaluators, tunneling, i, execArgs,
                   woLocals>>

\* lines 98-102: execute returns, or constructs a job for reaction.rmg_Reaction and
\* calls its generate_kinetics.  The constructor reads rmg_Reaction of the object it is
\* given (line 48), which raises AttributeError if the object has none.  The nested
\* reaction stands for the same reactants, products and transition state.
HOhf ==
    /\ pc = "ex_hohf"
    /\ \/ /\ ~print_HOhf_result
          /\ pc' = "returned"
          /\ UNCHANGED <<depth, ret, failure, genCalls, argTlist, usedTST, grid, units, samples>>
       \/ /\ print_HOhf_result
          /\ Raise("attr")
          /\ UNCHANGED <<depth, ret, genCalls, argTlist, usedTST, grid, units, samples>>
       \/ /\ print_HOhf_result
          /\ depth < MaxDepth
          /\ depth' = depth + 1
          /\ argTlist' = Some(ValueK(Tlist))
          /\ usedTST' = FALSE
          /\ Tmin' = InitTmin(None, argTlist')
          /\ Tmax' = InitTmax(None, argTlist')
          /\ Tcount' = InitTcount(argTlist', 0)
          /\ Tlist' = InitTlist(None, None, argTlist', 0)
          /\ k_units' = NULL /\ K_eq_units' = NULL /\ k_r_units' = NULL
          /\ k_list' = <<>> /\ k0_list' = <<>> /\ kappa_list' = <<>> /\ Keq_list' = <<>>
          /\ pc' = "gk_resolve" /\ ret' = "hohf"
          /\ UNCHANGED <<failure, genCalls>>
    /\ UNCHANGED <<caught, argTmin, argTmax, argTcount,
                   shape, tsTunneling, tunModel, kinetics, evaluators, tunneling, i, execArgs,
                   woLocals>>

\* line 103, then lines 78-85 in the nested job: execute(output_directory)
HOhf_Execute ==
    /\ pc = "hohf_execute"
    /\ plot' = TRUE
    /\ print_HOhf_result' = TRUE
    /\ pc' = "gk_resolve" /\ ret' = "execute"
    /\ UNCHANGED <<depth, failure, caught, genCalls, ctorArgs, usedTST, grid, units, samples,
                   shape, tsTunneling, tunModel, kinetics, evaluators, tunneling, i,
                   output_directory, woLocals>>

\* ------------------------------------------------------------ specifications
Next ==
    \/ Construct
    \/ Execute
    \/ GK_Resolve
    \/ GK_Units
    \/ GK_Disable
    \/ GK_EvalK0
    \/ GK_EvalK
    \/ GK_EvalKeq
    \/ GK_Fit
    \/ WO_Forward
    \/ WO_Reverse
    \/ WO_Fit0
    \/ WO_Fit1
    \/ WO_Tail
    \/ Draw
    \/ HOhf
    \/ HOhf_Execute

Spec == Init /\ [][Next]_vars

NextGrid == Construct

SpecGrid == InitGrid /\ [][NextGrid]_vars


\* ------------------------------------------------------------------- claims
InGenerate == pc \in {"gk_resolve", "gk_units", "gk_disable", "gk_k0", "gk_k", "gk_keq", "gk_fit"}

\* the samples are complete: the loop of generate_kinetics has ended
SamplesDone ==
    pc \in {"gk_fit", "wo_forward", "wo_reverse", "wo_fit0", "wo_fit1", "wo_tail",
            "ex_draw", "ex_hohf", "hohf_execute", "returned"}

\* the reference the transition state holds once tunneling is resolved
ResolvedRef == IF tunModel.kind = "None" THEN "None" ELSE "model"

\* C1: when the reverse samples are complete, k0_revs[j] = k0_list[j] / Keq_list[j]
\* and k_revs[j] = k_list[j] / Keq_list[j] at every position j of the temperatures.
C1_ReverseIndexAligned ==
    pc = "wo_fit0" =>
        \A j \in 1 .. Len(Tlist) :
            /\ k0_revs[j] = Div(k0_list[j], Keq_list[j])
            /\ k_revs[j] = Div(k_list[j], Keq_list[j])

\* C2: k0 is evaluated with the tunneling field None, k with the resolved model, and
\* whenever generate_kinetics has been left, by return or by an exception, the
\* transition state's tunneling field holds the resolved model.
C2_TunnelingTransient ==
    /\ pc = "gk_k0" => tsTunneling = "None"
    /\ pc = "gk_k" => tsTunneling = ResolvedRef
    /\ (genCalls > 0 /\ ~InGenerate /\ failure # "tunneling") => tsTunneling = ResolvedRef

\* C3: the first reverse fit is invoked only if every equilibrium constant is
\* positive: a zero or negative Keq has raised before.
C3_NonPositiveKeqRaisesBeforeFit ==
    pc \in {"wo_fit0", "wo_fit1", "wo_tail"} =>
        \A j \in 1 .. Len(Tlist) : Keq_list[j].n > 0

\* C4: no core computation failure is caught and logged as a warning inside execute.
C4_CoreFailuresPropagate == caught \cap CoreFailures = {}

\* C5: unit selection raises exactly if the reactant count is outside {1,2,3} or
\* products - reactants is outside {-2,...,2}; otherwise it selects the units and
\* goes on to the rate evaluation.
C5_UnitsEnvelope ==
    LET inside == nReactants \in 1 .. 3 /\ (nProducts - nReactants) \in (0 - 2) .. 2
    IN  /\ failure = "units" => ~inside
        /\ (pc = "gk_disable" /\ i = 1) =>
               inside /\ k_units = RateUnits[nReactants]
                      /\ K_eq_units = KeqUnits[nProducts - nReactants]

\* C5 as amended: unit selection raises exactly if the reactant count is outside
\* {1,2,3}, products - reactants is outside {-2,...,2}, or the product count is
\* outside {1,2,3}; otherwise it selects k_units, K_eq_units and k_r_units and goes
\* on to the rate evaluation.
C5_UnitsEnvelopeWithProducts ==
    LET inside == /\ nReactants \in 1 .. 3
                  /\ (nProducts - nReactants) \in (0 - 2) .. 2
                  /\ nProducts \in 1 .. 3
    IN  /\ failure = "units" => ~inside
        /\ (pc = "gk_disable" /\ i = 1) =>
               inside /\ k_units = RateUnits[nReactants]
                      /\ K_eq_units = KeqUnits[nProducts - nReactants]
                      /\ k_r_units = RateUnits[nProducts]

\* unit selection has raised for two reactants and four products
C5_Witness ==
    failure = "units" /\ nReactants = 2 /\ nProducts = 4

\* C6: after the tunneling resolution has completed without error, a Wigner model has
\* a frequency and an Eckart model has a frequency and its three energies.
C6_FullyParameterized ==
    pc = "gk_units" =>
        /\ tunModel.kind = "Wigner" => tunModel.frequency # None
        /\ tunModel.kind = "Eckart" =>
               /\ tunModel.frequency # None
               /\ tunModel.E0_reac # None
               /\ tunModel.E0_TS # None
               /\ tunModel.E0_prod # None

\* C7: with no tunneling model, every kappa is exactly 1 once the samples are complete.
C7_KappaOneWithoutTunneling ==
    (tunModel.kind = "None" /\ SamplesDone) =>
        \A j \in 1 .. Len(kappa_list) : kappa_list[j] = One

\* the samples of a job without tunneling are complete, for two different rates
C7_Witness ==
    /\ tunModel.kind = "None" /\ pc = "gk_fit"
    /\ Len(kappa_list) = 2 /\ k_list[1] # k_list[2]

\* C8: without an explicit list, Tcount is the requested count if that is at least 4
\* and 50 otherwise, and the generated list has Tcount points, from Tmax to Tmin.
C8_GeneratedGrid ==
    (pc = "constructed" /\ argTlist = None) =>
        /\ Tcount = IF argTcount >= 4 THEN argTcount ELSE 50
        /\ Len(Tlist) = Tcount
        /\ Tmax = IF argTmax = None THEN Num(2500) ELSE Num(argTmax[1])
        /\ Tmin = IF argTmin = None THEN Num(298) ELSE Num(argTmin[1])
        /\ Tlist[1] = Tmax
        /\ Tlist[Len(Tlist)] = Tmin

\* a job constructed with a requested count of 3 or less
C8_Witness ==
    pc = "constructed" /\ argTlist = None /\ argTcount = 3 /\ Len(Tlist) = 50

\* C9: an explicit list overrides Tmin, Tmax and Tcount: Tlist is the given sequence
\* in its order, duplicates kept; Tmin and Tmax are its minimum and maximum and
\* Tcount its length.
C9_ExplicitGrid ==
    (pc = "constructed" /\ argTlist # None) =>
        LET given == argTlist[1]
        IN  /\ Len(Tlist) = Len(given)
            /\ \A j \in 1 .. Len(given) : Tlist[j] = [n |-> given[j], d |-> 1, e |-> 0]
            /\ Tcount = Len(given)
            /\ \E j \in 1 .. Len(given) : Tmin.n = given[j] /\ Tmin.d = 1 /\ Tmin.e = 0
            /\ \E j \in 1 .. Len(given) : Tmax.n = given[j] /\ Tmax.d = 1 /\ Tmax.e = 0
            /\ \A j \in 1 .. Len(given) : Tmin.n <= given[j] /\ given[j] <= Tmax.n

\* a job constructed on a descending list of fewer than four temperatures, with
\* Tmin, Tmax and Tcount given as well
C9_Witness ==
    /\ pc = "constructed" /\ argTlist = Some(<<600, 300>>)
    /\ argTmin # None /\ argTmax # None /\ argTcount > 3

\* C10: a call of execute with its default arguments starts no further job and
\* invokes generate_kinetics once.
C10_SinglePipelineRun ==
    (output_directory = NULL /\ plot /\ print_HOhf_result) =>
        depth = 0 /\ genCalls <= 1

=============================================================================
